---- MODULE Spec2Model ----
(***************************************************************************)
(* Student Information System (src/public/stu_info.cpp).                   *)
(*                                                                         *)
(* A string is a sequence of one-character strings.  The backing file      *)
(* students.txt and the unread part of standard input are such sequences,  *)
(* line breaks included, so that writing a record and reading it back are  *)
(* computed character by character as the code does.                       *)
(***************************************************************************)
EXTENDS Integers, Sequences, FiniteSets, TLC

VARIABLES students, file, cin, pc, last, codec

vars == <<students, file, cin, pc, last, codec>>

-----------------------------------------------------------------------------
(* Bounds of the model.                                                    *)

\* Largest number of records the vector holds in the model.
MaxStudents == 3

\* Largest number of lines of the backing file found at start-up.
MaxFileLines == 2

-----------------------------------------------------------------------------
(* Characters and strings.                                                 *)

NL == "\n"

COMMA == ","

DigitChars == <<"0", "1", "2", "3", "4", "5", "6", "7", "8", "9">>

IsDigit(c) == \E d \in 1..10 : DigitChars[d] = c

DigitVal(c) == (CHOOSE d \in 1..10 : DigitChars[d] = c) - 1

\* isspace(), for the characters the model uses.
IsSpace(c) == c \in {" ", NL}

\* Index of the first occurrence of character c in s, 0 when there is none
\* (string::find returning npos).
RECURSIVE FindFrom(_, _, _)
FindFrom(s, c, i) ==
    IF i > Len(s) THEN 0
    ELSE IF s[i] = c THEN i
    ELSE FindFrom(s, c, i + 1)

Find(s, c) == FindFrom(s, c, 1)

\* The suffix of s starting at index i.
From(s, i) == SubSeq(s, i, Len(s))

\* operator<<(int): the decimal digits, with a leading minus sign when negative.
RECURSIVE NatToStr(_)
NatToStr(n) ==
    IF n < 10 THEN <<DigitChars[n + 1]>>
    ELSE NatToStr(n \div 10) \o <<DigitChars[(n % 10) + 1]>>

IntToStr(n) == IF n < 0 THEN <<"-">> \o NatToStr(-n) ELSE NatToStr(n)

\* Number of leading characters of s that satisfy isspace.
RECURSIVE LeadingSpaces(_)
LeadingSpaces(s) ==
    IF s # <<>> /\ IsSpace(Head(s)) THEN 1 + LeadingSpaces(Tail(s)) ELSE 0

\* Number of leading digits of s.
RECURSIVE LeadingDigits(_)
LeadingDigits(s) ==
    IF s # <<>> /\ IsDigit(Head(s)) THEN 1 + LeadingDigits(Tail(s)) ELSE 0

\* Value of a string of digits.
RECURSIVE DigitsVal(_)
DigitsVal(s) ==
    IF s = <<>> THEN 0
    ELSE 10 * DigitsVal(SubSeq(s, 1, Len(s) - 1)) + DigitVal(s[Len(s)])

\* Scanning a decimal integer at the start of s, as strtol and num_get do:
\* optional sign, then the longest run of digits.  used is the number of
\* characters taken, digits the number of digits among them.
ScanInt(s) ==
    LET signed == s # <<>> /\ Head(s) \in {"-", "+"}
        body   == IF signed THEN Tail(s) ELSE s
        nd     == LeadingDigits(body)
        mag    == DigitsVal(SubSeq(body, 1, nd))
    IN  [digits |-> nd,
         used   |-> nd + (IF signed THEN 1 ELSE 0),
         val    |-> IF signed /\ Head(s) = "-" THEN -mag ELSE mag]

\* Mutant of stoi: a sign is not accepted.
stoi_nosign(s) ==
    LET t  == From(s, LeadingSpaces(s) + 1)
        nd == LeadingDigits(t)
    IN  IF nd = 0
        THEN [thrown |-> TRUE, val |-> 0]
        ELSE [thrown |-> FALSE, val |-> DigitsVal(SubSeq(t, 1, nd))]

\* std::stoi: skips leading white space, then scans; throws invalid_argument
\* when there is no digit.  (It throws out_of_range when the value does not
\* fit an int; every number of the model is far inside that range.)
stoi(s) ==
    LET sc == ScanInt(From(s, LeadingSpaces(s) + 1))
    IN  IF sc.digits = 0
        THEN [thrown |-> TRUE, val |-> 0]
        ELSE [thrown |-> FALSE, val |-> sc.val]

-----------------------------------------------------------------------------
(* class Student.                                                          *)

\* Student(int r, string n, string d, string e, string p).
Student(r, n, d, e, p) ==
    [rollNo |-> r, name |-> n, department |-> d, email |-> e, phone |-> p]

\* Values an int that was never initialised may be found to hold.
Indeterminate == {0, 12}

\* Student() {}: the four strings are empty, rollNo is left uninitialised.
DefaultStudent == {Student(g, <<>>, <<>>, <<>>, <<>>) : g \in Indeterminate}

\* Mutant of setName: the department is overwritten too.
setName_dept(s, n) == [s EXCEPT !.name = n, !.department = n]

\* setName.
setName(s, n) == [s EXCEPT !.name = n]

\* Mutant of Student::saveToFile: the line is not ended.
Student_saveToFile_noendl(s) ==
    IntToStr(s.rollNo) \o <<COMMA>> \o s.name \o <<COMMA>> \o s.department
        \o <<COMMA>> \o s.email \o <<COMMA>> \o s.phone

\* Student::saveToFile: the characters written to the stream, endl included.
Student_saveToFile(s) ==
    IntToStr(s.rollNo) \o <<COMMA>> \o s.name \o <<COMMA>> \o s.department
        \o <<COMMA>> \o s.email \o <<COMMA>> \o s.phone \o <<NL>>

\* The while loop of Student::fromString: the parts between the commas.
RECURSIVE SplitParts(_)
SplitParts(line) ==
    LET pos == Find(line, COMMA)
    IN  IF pos = 0 THEN <<line>>
        ELSE <<SubSeq(line, 1, pos - 1)>> \o SplitParts(From(line, pos + 1))

\* Student::fromString: the set of outcomes of parsing one line.  An outcome
\* either is a thrown exception (stoi on parts[0]) or carries the record.
Student_fromString(line) ==
    LET parts == SplitParts(line)
    IN  IF Len(parts) = 5
        THEN LET r == stoi(parts[1])
             IN  IF r.thrown
                 THEN {[thrown |-> TRUE, s |-> Student(0, <<>>, <<>>, <<>>, <<>>)]}
                 ELSE {[thrown |-> FALSE,
                        s |-> Student(r.val, parts[2], parts[3], parts[4], parts[5])]}
        ELSE {[thrown |-> FALSE, s |-> d] : d \in DefaultStudent}

-----------------------------------------------------------------------------
(* File streams.                                                           *)

\* One getline on the characters s: ok is FALSE at end of input with nothing
\* extracted; otherwise line is the text up to the line break (or to the end
\* of input) and rest what follows the line break.
getline(s) ==
    LET pos == Find(s, NL)
    IN  IF s = <<>> THEN [ok |-> FALSE, line |-> <<>>, rest |-> <<>>]
        ELSE IF pos = 0 THEN [ok |-> TRUE, line |-> s, rest |-> <<>>]
        ELSE [ok |-> TRUE, line |-> SubSeq(s, 1, pos - 1), rest |-> From(s, pos + 1)]

\* StudentSystem::loadFromFile on the file content f, the vector holding acc
\* so far: the set of outcomes.  An exception thrown by fromString is not
\* caught anywhere, so it ends the process.
RECURSIVE LoadLoop(_, _)
LoadLoop(f, acc) ==
    LET g == getline(f)
    IN  IF ~g.ok THEN {[thrown |-> FALSE, students |-> acc]}
        ELSE IF g.line = <<>> THEN LoadLoop(g.rest, acc)
        ELSE UNION {IF o.thrown
                    THEN {[thrown |-> TRUE, students |-> acc]}
                    ELSE LoadLoop(g.rest, Append(acc, o.s))
                    : o \in Student_fromString(g.line)}

loadFromFile(f) == LoadLoop(f, <<>>)

\* Mutant of saveToFile: the loop stops after the first record.
saveToFile_first(ss) ==
    IF ss = <<>> THEN <<>> ELSE Student_saveToFile(Head(ss))

\* StudentSystem::saveToFile: the new content of the file.
RECURSIVE saveToFile(_)
saveToFile(ss) ==
    IF ss = <<>> THEN <<>>
    ELSE Student_saveToFile(Head(ss)) \o saveToFile(Tail(ss))

\* The scan shared by search, update and delete: index of the first record
\* whose rollNo is roll, 0 when there is none.
RECURSIVE FirstFrom(_, _, _)
FirstFrom(ss, roll, i) ==
    IF i > Len(ss) THEN 0
    ELSE IF ss[i].rollNo = roll THEN i
    ELSE FirstFrom(ss, roll, i + 1)

\* Mutant of findByRoll: without a match the scan ends on the last record.
findByRoll_fallback(ss, roll) ==
    IF FirstFrom(ss, roll, 1) = 0 THEN Len(ss) ELSE FirstFrom(ss, roll, 1)

\* Mutant of findByRoll: the scan does not stop at the first match.
findByRoll_last(ss, roll) ==
    IF \E i \in 1..Len(ss) : ss[i].rollNo = roll
    THEN CHOOSE i \in 1..Len(ss) :
            ss[i].rollNo = roll /\ \A j \in (i + 1)..Len(ss) : ss[j].rollNo # roll
    ELSE 0

findByRoll(ss, roll) == FirstFrom(ss, roll, 1)

\* Mutant of push_back: the record is inserted at the front.
push_back_front(ss, s) == <<s>> \o ss

\* vector::push_back.
push_back(ss, s) == Append(ss, s)

\* Mutant of erase: the last record is moved into the place of the erased
\* one, so the order of the rest is not kept.
erase_swap(ss, i) ==
    IF i = Len(ss) THEN SubSeq(ss, 1, Len(ss) - 1)
    ELSE [SubSeq(ss, 1, Len(ss) - 1) EXCEPT ![i] = ss[Len(ss)]]

\* Mutant of erase: everything from index i on is erased.
erase_tail(ss, i) == SubSeq(ss, 1, i - 1)

\* vector::erase at index i.
erase(ss, i) == SubSeq(ss, 1, i - 1) \o SubSeq(ss, i + 1, Len(ss))

-----------------------------------------------------------------------------
(* Standard input.  cin.buf holds the characters typed but not yet read,   *)
(* cin.fail the stream's failbit.  The user types whole lines; a line is   *)
(* asked of the user only when the program needs a character the buffer    *)
(* does not hold, and end of input is never reached.                       *)

\* cin >> x for an int x holding old.  With the failbit set nothing is read
\* and x keeps its value.  Otherwise white space is skipped (the user typing
\* the number typed on a fresh line when no other character is buffered) and
\* an integer is scanned: with no digit the failbit is set and x becomes 0.
\* (Every number of the model is far inside int's range.)
cin_int(c, typed, old) ==
    IF c.fail THEN [cin |-> c, val |-> old]
    ELSE LET avail == IF LeadingSpaces(c.buf) = Len(c.buf)
                      THEN c.buf \o IntToStr(typed) \o <<NL>>
                      ELSE c.buf
             s     == From(avail, LeadingSpaces(avail) + 1)
             sc    == ScanInt(s)
             rest  == From(s, sc.used + 1)
         IN  IF sc.digits = 0
             THEN [cin |-> [buf |-> rest, fail |-> TRUE], val |-> 0]
             ELSE [cin |-> [buf |-> rest, fail |-> FALSE], val |-> sc.val]

\* cin.ignore(): drops one character, nothing with the failbit set.  Every
\* call follows a successful cin >> x, which stops before a line break, so
\* the buffer is not empty when a character is dropped.
cin_ignore(c) ==
    IF c.fail \/ c.buf = <<>> THEN c ELSE [c EXCEPT !.buf = Tail(c.buf)]

\* getline(cin, str) for an empty str: with the failbit set str stays empty.
\* Otherwise the next line is extracted, the user typing the line typed when
\* the buffer is empty.
cin_getline(c, typed) ==
    IF c.fail THEN [cin |-> c, line |-> <<>>]
    ELSE LET g == getline(IF c.buf = <<>> THEN typed \o <<NL>> ELSE c.buf)
         IN  [cin |-> [buf |-> g.rest, fail |-> FALSE], line |-> g.line]

-----------------------------------------------------------------------------
(* What the user types.                                                    *)

\* Numbers typed at the menu prompt.
Choices == 1..7

\* Numbers typed at a roll number prompt.
Rolls == {-1, 12}

\* Lines typed at a name prompt.
Names == {<<>>, <<"6">>, <<"b", ",">>}

\* Lines typed at the department, email and phone prompts.
Details == {<<<<"d">>, <<>>, <<"p">>>>}

\* Lines of the backing file found at start-up: two well-formed records, a
\* line of three parts, an empty line, a line of five parts whose first is
\* not a number.
FileLines ==
    { <<"1", "2", ",", "6", ",", "d", ",", ",", "p">>,
      <<"-", "1", ",", ",", "d", ",", ",", "p">>,
      <<"1", "2", ",", "6", ",", "d">>,
      <<>>,
      <<"x", ",", "6", ",", "d", ",", ",", "p">> }

RECURSIVE JoinLines(_)
JoinLines(ls) ==
    IF ls = <<>> THEN <<>> ELSE Head(ls) \o <<NL>> \o JoinLines(Tail(ls))

\* Contents of the backing file found at start-up; the last line may lack
\* its line break.
InitFiles ==
    LET texts == UNION {[1..n -> FileLines] : n \in 0..MaxFileLines}
    IN  {JoinLines(ls) : ls \in texts}
        \cup {SubSeq(JoinLines(ls), 1, Len(JoinLines(ls)) - 1) : ls \in texts \ {<<>>}}

-----------------------------------------------------------------------------
(* The program.                                                            *)

NoStudent == Student(0, <<>>, <<>>, <<>>, <<>>)

\* What the last pass through the menu loop did: the choice read, the roll
\* number read (0 when none was), whether the scan found it, the effects and
\* messages in the order the code produces them, and the records displayed;
\* rec is the record addStudent built from its input and newName the name
\* updateStudent read; reads names, in order, the variables the handler read
\* from cin.
Did(op, choice, roll, found, trace, shown) ==
    [op |-> op, choice |-> choice, roll |-> roll, found |-> found,
     trace |-> trace, shown |-> shown, rec |-> NoStudent, newName |-> <<>>,
     reads |-> <<>>]

\* The state of the record codec exercised on its own (see SpecCodec): the
\* record s, the characters out written for it, and what parsing the line
\* read back from out gave.
Codec(stage, s, out, thrown, back) ==
    [stage |-> stage, s |-> s, out |-> out, thrown |-> thrown, back |-> back]

CodecIdle == Codec("idle", NoStudent, <<>>, FALSE, NoStudent)

\* main: StudentSystem system; the constructor loads the file.
Init ==
    /\ file \in InitFiles
    /\ \E o \in loadFromFile(file) :
          /\ students = o.students
          /\ pc = IF o.thrown THEN "aborted" ELSE "menu"
    /\ cin = [buf |-> <<>>, fail |-> FALSE]
    /\ last = Did("load", 0, 0, FALSE, <<>>, <<>>)
    /\ codec = CodecIdle

\* menu(): cin >> choice; cin.ignore();
ReadChoice(typed) ==
    LET r == cin_int(cin, typed, last.choice)
    IN  [cin |-> cin_ignore(r.cin), val |-> r.val]

\* The choices the menu can read next, each with the stream it leaves.
MenuReads == {ReadChoice(c) : c \in Choices}

\* What an int local that cin >> leaves untouched may hold: it is written
\* by the extraction unless the failbit is already set.
Local(c) == IF c.fail THEN Indeterminate ELSE {0}

\* The roll numbers a handler can read from stream c, each with the stream
\* it leaves.
RollReads(c) == {cin_int(c, roll, g) : roll \in Rolls, g \in Local(c)}

\* Mutant of AfterSwitch: the loop also ends on a choice above 6.
AfterSwitch_above(choice) == IF choice < 6 THEN "menu" ELSE "exited"

\* while (choice != 6): where control is after the switch.
AfterSwitch(choice) == IF choice # 6 THEN "menu" ELSE "exited"

\* case 1: addStudent().
addStudent ==
    /\ pc = "menu"
    /\ Len(students) < MaxStudents
    /\ \E m \in MenuReads :
          /\ m.val = 1
          /\ \E r \in RollReads(m.cin), n \in Names, det \in Details :
             \E i1 \in {cin_getline(cin_ignore(r.cin), n)} :
             \E i2 \in {cin_getline(i1.cin, det[1])} :
             \E i3 \in {cin_getline(i2.cin, det[2])} :
             \E i4 \in {cin_getline(i3.cin, det[3])} :
             \E s \in {Student(r.val, i1.line, i2.line, i3.line, i4.line)} :
             \E ss \in {push_back(students, s)} :
                /\ students' = ss
                /\ file' = saveToFile(ss)
                /\ cin' = i4.cin
                /\ last' = [Did("add", 1, r.val, FALSE,
                                <<"push_back", "saveToFile", "Added">>, <<>>)
                            EXCEPT !.rec = s,
                                   !.reads = <<"roll", "name", "dept", "email", "phone">>]
          /\ pc' = AfterSwitch(m.val)
    /\ UNCHANGED codec

\* Mutant of viewStudents: the file is rewritten, as after a mutation.
viewStudents_saves ==
    /\ pc = "menu"
    /\ \E m \in MenuReads :
          /\ m.val = 2
          /\ cin' = m.cin
          /\ file' = saveToFile(students)
          /\ last' = IF students = <<>>
                     THEN Did("view", 2, 0, FALSE, <<"NoRecords">>, <<>>)
                     ELSE Did("view", 2, 0, FALSE, <<"display">>, students)
          /\ pc' = AfterSwitch(m.val)
    /\ UNCHANGED <<students, codec>>

\* case 2: viewStudents().
viewStudents ==
    /\ pc = "menu"
    /\ \E m \in MenuReads :
          /\ m.val = 2
          /\ cin' = m.cin
          /\ last' = IF students = <<>>
                     THEN Did("view", 2, 0, FALSE, <<"NoRecords">>, <<>>)
                     ELSE Did("view", 2, 0, FALSE, <<"display">>, students)
          /\ pc' = AfterSwitch(m.val)
    /\ UNCHANGED <<students, file, codec>>

\* case 3: searchStudent().
searchStudent ==
    /\ pc = "menu"
    /\ \E m \in MenuReads :
          /\ m.val = 3
          /\ \E r \in RollReads(m.cin) :
             \E i \in {findByRoll(students, r.val)} :
                /\ cin' = r.cin
                /\ last' = [(IF i # 0
                             THEN Did("search", 3, r.val, TRUE,
                                      <<"display">>, <<students[i]>>)
                             ELSE Did("search", 3, r.val, FALSE, <<"NotFound">>, <<>>))
                            EXCEPT !.reads = <<"roll">>]
          /\ pc' = AfterSwitch(m.val)
    /\ UNCHANGED <<students, file, codec>>

\* Mutant of updateStudent: the new name is read before the scan, whether or
\* not the roll number is found.
updateStudent_always ==
    /\ pc = "menu"
    /\ \E m \in MenuReads :
          /\ m.val = 4
          /\ \E r \in RollReads(m.cin), n \in Names :
             \E nn \in {cin_getline(cin_ignore(r.cin), n)} :
             \E i \in {findByRoll(students, r.val)} :
                /\ cin' = nn.cin
                /\ IF i # 0
                   THEN \E ss \in {[students EXCEPT
                                       ![i] = setName(students[i], nn.line)]} :
                           /\ students' = ss
                           /\ file' = saveToFile(ss)
                           /\ last' = [Did("update", 4, r.val, TRUE,
                                           <<"setName", "saveToFile", "Updated">>, <<>>)
                                       EXCEPT !.newName = nn.line,
                                              !.reads = <<"roll", "newName">>]
                   ELSE /\ UNCHANGED <<students, file>>
                        /\ last' = [Did("update", 4, r.val, FALSE, <<"NotFound">>, <<>>)
                                    EXCEPT !.reads = <<"roll", "newName">>]
          /\ pc' = AfterSwitch(m.val)
    /\ UNCHANGED codec

\* case 4: updateStudent().  The new name is read only once the roll number
\* has been found; ahead tells whether the user had typed it already.
updateStudent ==
    /\ pc = "menu"
    /\ \E m \in MenuReads :
          /\ m.val = 4
          /\ \E r \in RollReads(m.cin), n \in Names :
             \E c1 \in {cin_ignore(r.cin)} :
             \E i \in {findByRoll(students, r.val)} :
                IF i # 0
                THEN \E nn \in {cin_getline(c1, n)} :
                     \E ss \in {[students EXCEPT ![i] = setName(students[i], nn.line)]} :
                        /\ students' = ss
                        /\ file' = saveToFile(ss)
                        /\ cin' = nn.cin
                        /\ last' = [Did("update", 4, r.val, TRUE,
                                        <<"setName", "saveToFile", "Updated">>, <<>>)
                                    EXCEPT !.newName = nn.line,
                                           !.reads = <<"roll", "newName">>]
                ELSE \E ahead \in BOOLEAN :
                        /\ UNCHANGED <<students, file>>
                        /\ cin' = IF ahead /\ ~c1.fail
                                  THEN [c1 EXCEPT !.buf = c1.buf \o n \o <<NL>>]
                                  ELSE c1
                        /\ last' = [Did("update", 4, r.val, FALSE, <<"NotFound">>, <<>>)
                                    EXCEPT !.reads = <<"roll">>]
          /\ pc' = AfterSwitch(m.val)
    /\ UNCHANGED codec

\* case 5: deleteStudent().
deleteStudent ==
    /\ pc = "menu"
    /\ \E m \in MenuReads :
          /\ m.val = 5
          /\ \E r \in RollReads(m.cin) :
             \E i \in {findByRoll(students, r.val)} :
                /\ cin' = r.cin
                /\ IF i # 0
                   THEN \E ss \in {erase(students, i)} :
                           /\ students' = ss
                           /\ file' = saveToFile(ss)
                           /\ last' = [Did("delete", 5, r.val, TRUE,
                                           <<"erase", "saveToFile", "Deleted">>, <<>>)
                                       EXCEPT !.reads = <<"roll">>]
                   ELSE /\ UNCHANGED <<students, file>>
                        /\ last' = [Did("delete", 5, r.val, FALSE, <<"NotFound">>, <<>>)
                                    EXCEPT !.reads = <<"roll">>]
          /\ pc' = AfterSwitch(m.val)
    /\ UNCHANGED codec

\* case 6: the loop ends and main returns.
exitMenu ==
    /\ pc = "menu"
    /\ \E m \in MenuReads :
          /\ m.val = 6
          /\ cin' = m.cin
          /\ last' = Did("exit", 6, 0, FALSE, <<"Exiting">>, <<>>)
          /\ pc' = AfterSwitch(m.val)
    /\ UNCHANGED <<students, file, codec>>

\* default: any other choice.
invalidChoice ==
    /\ pc = "menu"
    /\ \E m \in MenuReads :
          /\ m.val \notin 1..6
          /\ cin' = m.cin
          /\ last' = Did("invalid", m.val, 0, FALSE, <<"Invalid">>, <<>>)
          /\ pc' = AfterSwitch(m.val)
    /\ UNCHANGED <<students, file, codec>>

Next ==
    \/ addStudent
    \/ viewStudents
    \/ searchStudent
    \/ updateStudent
    \/ deleteStudent
    \/ exitMenu
    \/ invalidChoice

Spec == Init /\ [][Next]_vars

-----------------------------------------------------------------------------
(* The record codec on its own: a record is written to a stream with       *)
(* Student::saveToFile, the stream is read back with getline and the line  *)
(* is parsed with Student::fromString.                                     *)

CodecRolls == {-12, -1, 0, 7, 12, 305}

CodecTexts == {<<>>, <<"a">>, <<"a", " ", "b">>, <<COMMA>>, <<"a", NL>>}

CodecStudents ==
    {Student(r, n, d, e, p) :
        r \in CodecRolls, n \in CodecTexts, d \in CodecTexts,
        e \in CodecTexts, p \in CodecTexts}

CodecInit ==
    /\ students = <<>>
    /\ file = <<>>
    /\ cin = [buf |-> <<>>, fail |-> FALSE]
    /\ pc = "codec"
    /\ last = Did("load", 0, 0, FALSE, <<>>, <<>>)
    /\ \E s \in CodecStudents : codec = Codec("new", s, <<>>, FALSE, NoStudent)

\* s.saveToFile(out).
CodecSave ==
    /\ codec.stage = "new"
    /\ codec' = [codec EXCEPT !.stage = "saved", !.out = Student_saveToFile(codec.s)]
    /\ UNCHANGED <<students, file, cin, pc, last>>

\* getline(in, line); Student::fromString(line).
CodecParse ==
    /\ codec.stage = "saved"
    /\ \E o \in Student_fromString(getline(codec.out).line) :
          codec' = [codec EXCEPT !.stage = "parsed", !.thrown = o.thrown, !.back = o.s]
    /\ UNCHANGED <<students, file, cin, pc, last>>

CodecNext == CodecSave \/ CodecParse

SpecCodec == CodecInit /\ [][CodecNext]_vars

-----------------------------------------------------------------------------
(* Properties.  The definitions of this section state what is claimed of   *)
(* the program; they do not model it.                                      *)

\* The line of record s without its line break.
RecordLine(s) ==
    IntToStr(s.rollNo) \o <<COMMA>> \o s.name \o <<COMMA>> \o s.department
        \o <<COMMA>> \o s.email \o <<COMMA>> \o s.phone

\* The lines of the first k records of ss, each ended by a line break.
RECURSIVE SerialUpTo(_, _)
SerialUpTo(ss, k) ==
    IF k = 0 THEN <<>> ELSE SerialUpTo(ss, k - 1) \o RecordLine(ss[k]) \o <<NL>>

Serialization(ss) == SerialUpTo(ss, Len(ss))

\* Number of occurrences of character c in f.
CountChar(f, c) == Cardinality({i \in 1..Len(f) : f[i] = c})

HasRoll(ss, id) == \E i \in 1..Len(ss) : ss[i].rollNo = id

CountRoll(ss, id) == Cardinality({i \in 1..Len(ss) : ss[i].rollNo = id})

\* Position of the earliest record of ss with roll number id (id is present).
FirstIndex(ss, id) ==
    CHOOSE i \in 1..Len(ss) :
        ss[i].rollNo = id /\ \A j \in 1..(i - 1) : ss[j].rollNo # id

HasChar(t, c) == \E i \in 1..Len(t) : t[i] = c

TextFields(s) == {s.name, s.department, s.email, s.phone}

NoComma(s) == \A t \in TextFields(s) : ~HasChar(t, COMMA)

SuccessMessages == {"Added", "Updated", "Deleted"}

Mutations == {"push_back", "setName", "erase"}

\* The last pass was a mutating operation that reported success.
ReportedSuccess ==
    /\ last.op \in {"add", "update", "delete"}
    /\ \E k \in 1..Len(last.trace) : last.trace[k] \in SuccessMessages

\* C1: after every mutating operation that reports success (add, update of a
\* present roll number, delete of a present roll number) the backing file is
\* exactly the serialization of the in-memory sequence, one line per record
\* in the same order, and the file was written after the change to the
\* sequence and before the success message.
C1_FileIsSerialization ==
    ReportedSuccess =>
        /\ file = Serialization(students)
        /\ CountChar(file, NL) = Len(students)
        /\ \E i, j, k \in 1..Len(last.trace) :
              /\ i < j /\ j < k
              /\ last.trace[i] \in Mutations
              /\ last.trace[j] = "saveToFile"
              /\ last.trace[k] \in SuccessMessages

\* C1 witness: a delete reported success and left at least two records, one
\* of them with a comma in its name.
C1_Witness ==
    /\ ReportedSuccess
    /\ last.op = "delete"
    /\ Len(students) >= 2
    /\ \E i \in 1..Len(students) : HasChar(students[i].name, COMMA)

\* No earlier record of the sequence has the roll number of the last one.
NoEarlierSameRoll(ss) ==
    \A j \in 1..(Len(ss) - 1) : ss[j].rollNo # ss[Len(ss)].rollNo

\* Every fresh load of the file f succeeds and yields a sequence ending in s.
ReloadEndsWith(f, s) ==
    \A o \in loadFromFile(f) :
        ~o.thrown /\ o.students # <<>> /\ o.students[Len(o.students)] = s

\* C2 as stated: after add(r), findByRoll(r.rollNo) returns a record equal to
\* r, and the backing file reloaded fresh yields a sequence with r at the end.
C2_Original ==
    last.op = "add" =>
        /\ findByRoll(students, last.rec.rollNo) # 0
        /\ students[findByRoll(students, last.rec.rollNo)] = last.rec
        /\ ReloadEndsWith(file, last.rec)

\* C2 amended: after add(r), r is the last record of the sequence and
\* findByRoll(r.rollNo) finds a record; that record is equal to r when no
\* earlier record has the same roll number; and the backing file reloaded
\* fresh yields a sequence with r at the end when no text field of r holds a
\* comma.
C2_Amended ==
    last.op = "add" =>
        /\ students # <<>>
        /\ students[Len(students)] = last.rec
        /\ last.rec.rollNo = last.roll
        /\ findByRoll(students, last.rec.rollNo) # 0
        /\ NoEarlierSameRoll(students) =>
              students[findByRoll(students, last.rec.rollNo)] = last.rec
        /\ NoComma(last.rec) => ReloadEndsWith(file, last.rec)

\* C2 witness: a record without commas was added behind two records with
\* other roll numbers, one of which has a comma in its name.
C2_Witness ==
    /\ last.op = "add"
    /\ Len(students) = 3
    /\ NoComma(last.rec)
    /\ NoEarlierSameRoll(students)
    /\ HasChar(students[1].name, COMMA)

\* The step is a delete of a roll number that is present.
DeleteOfPresent == last'.op = "delete" /\ HasRoll(students, last'.roll)

\* C3 as stated: after delete(id) with id present, findByRoll(id) reports
\* not-found and the sequence is shorter by exactly 1.
C3_Original ==
    [][DeleteOfPresent =>
          /\ findByRoll(students', last'.roll) = 0
          /\ Len(students') = Len(students) - 1]_vars

\* C3 amended: after delete(id) with id present, the sequence is shorter by
\* exactly 1 and holds exactly one record with roll number id fewer;
\* findByRoll(id) reports not-found exactly when id occurred once before the
\* delete.
C3_Amended ==
    [][DeleteOfPresent =>
          /\ last'.found
          /\ Len(students') = Len(students) - 1
          /\ CountRoll(students', last'.roll) = CountRoll(students, last'.roll) - 1
          /\ (findByRoll(students', last'.roll) = 0)
                <=> (CountRoll(students, last'.roll) = 1)]_vars

\* C3 witness: a delete found its roll number and a record with that roll
\* number is still present, next to a record with another roll number.
C3_Witness ==
    /\ last.op = "delete"
    /\ last.found
    /\ HasRoll(students, last.roll)
    /\ \E i \in 1..Len(students) : students[i].rollNo # last.roll

\* The non-empty lines of f, in order (a last line may lack its line break).
RECURSIVE NonEmptyLines(_)
NonEmptyLines(f) ==
    IF f = <<>> THEN <<>>
    ELSE LET pos  == Find(f, NL)
             line == IF pos = 0 THEN f ELSE SubSeq(f, 1, pos - 1)
             rest == IF pos = 0 THEN <<>> ELSE From(f, pos + 1)
         IN  (IF line = <<>> THEN <<>> ELSE <<line>>) \o NonEmptyLines(rest)

\* Number of parts a comma split of line yields.
PartCount(line) == CountChar(line, COMMA) + 1

\* C4: a line of the backing file whose comma split yields a number of parts
\* other than 5 loads as a record with rollNo 0 and four empty text fields,
\* and a file of such lines loads without an error.
C4_MalformedLoadsAsZero ==
    last.op = "load" =>
        LET lines == NonEmptyLines(file)
        IN  /\ (\A k \in 1..Len(lines) : PartCount(lines[k]) # 5) => pc = "menu"
            /\ pc = "menu" =>
                  /\ Len(students) = Len(lines)
                  /\ \A k \in 1..Len(lines) :
                        PartCount(lines[k]) # 5 =>
                            students[k] = Student(0, <<>>, <<>>, <<>>, <<>>)

\* The step is an update of a roll number that is present.
UpdateOfPresent == last'.op = "update" /\ HasRoll(students, last'.roll)

\* C5: after updateName(id, newName) with id present, findByRoll(id).name is
\* newName, the other four fields of that record are unchanged, and every
\* other record, later records with the same roll number included, keeps its
\* value and its position.
C5_UpdateFrame ==
    [][UpdateOfPresent =>
          LET i == FirstIndex(students, last'.roll)
          IN  /\ last'.found
              /\ Len(students') = Len(students)
              /\ findByRoll(students', last'.roll) = i
              /\ students'[i].name = last'.newName
              /\ students'[i].rollNo = students[i].rollNo
              /\ students'[i].department = students[i].department
              /\ students'[i].email = students[i].email
              /\ students'[i].phone = students[i].phone
              /\ \A j \in 1..Len(students) : j # i => students'[j] = students[j]]_vars

\* C5 witness: an update found its roll number in a sequence of three
\* records where a later record has the same roll number and another name.
C5_Witness ==
    /\ last.op = "update"
    /\ last.found
    /\ Len(students) = 3
    /\ LET i == FirstIndex(students, last.roll)
       IN  /\ students[i].name = last.newName
           /\ \E j \in (i + 1)..Len(students) :
                 /\ students[j].rollNo = last.roll
                 /\ students[j].name # last.newName

\* The step is an update or a delete of a roll number that is absent.
UpdateOrDeleteOfAbsent ==
    last'.op \in {"update", "delete"} /\ ~HasRoll(students, last'.roll)

\* C6: update or delete with a roll number that matches no record reports
\* not-found and leaves the in-memory sequence and the backing file as they
\* were; the file is not written.
C6_AbsentLeavesAll ==
    [][UpdateOrDeleteOfAbsent =>
          /\ ~last'.found
          /\ last'.trace = <<"NotFound">>
          /\ students' = students
          /\ file' = file]_vars

\* C6 witness: a delete did not find its roll number in a non-empty sequence
\* whose backing file is still not the serialization of the sequence.
C6_Witness ==
    /\ last.op = "delete"
    /\ ~last.found
    /\ last.trace = <<"NotFound">>
    /\ students # <<>>
    /\ file # Serialization(students)

NoLineBreak(s) == \A t \in TextFields(s) : ~HasChar(t, NL)

\* C7: for a record whose text fields hold neither a comma nor a line break,
\* parsing the line read back from what saveToFile wrote yields a record
\* equal to the original in all five fields.
C7_RoundTrip ==
    (codec.stage = "parsed" /\ NoComma(codec.s) /\ NoLineBreak(codec.s)) =>
        /\ ~codec.thrown
        /\ codec.back.rollNo = codec.s.rollNo
        /\ codec.back.name = codec.s.name
        /\ codec.back.department = codec.s.department
        /\ codec.back.email = codec.s.email
        /\ codec.back.phone = codec.s.phone

\* C7 witness: a record with a negative roll number, an empty name and a
\* non-empty phone was written and parsed back.
C7_Witness ==
    /\ codec.stage = "parsed"
    /\ NoComma(codec.s) /\ NoLineBreak(codec.s)
    /\ codec.s.rollNo < 0
    /\ codec.s.name = <<>>
    /\ codec.s.phone # <<>>

\* C8: view and search never change the backing file or the in-memory
\* sequence, and the file is written only by add, update and delete.
C8_ReadOnly ==
    [][/\ last'.op \in {"view", "search"} =>
             /\ students' = students
             /\ file' = file
             /\ \A k \in 1..Len(last'.trace) : last'.trace[k] # "saveToFile"
       /\ (file' # file \/ \E k \in 1..Len(last'.trace) : last'.trace[k] = "saveToFile")
             => last'.op \in {"add", "update", "delete"}]_vars

\* C8 witness: a search found its record while the backing file is still
\* not the serialization of the sequence.
C8_Witness ==
    /\ last.op = "search"
    /\ last.found
    /\ file # Serialization(students)

\* C9: add never rejects a duplicate: the record is appended at the end also
\* when its roll number is already present, and the scan used by search,
\* update and delete selects the earliest record with a given roll number.
C9_DuplicatesAppend ==
    [][/\ last'.op = "add" =>
             /\ students' = Append(students, last'.rec)
             /\ last'.rec.rollNo = last'.roll
             /\ last'.trace[Len(last'.trace)] = "Added"
       /\ (last'.op = "search" /\ HasRoll(students, last'.roll)) =>
             /\ last'.found
             /\ last'.shown = <<students[FirstIndex(students, last'.roll)]>>
       /\ \A id \in Rolls :
             HasRoll(students', id) =>
                 findByRoll(students', id) = FirstIndex(students', id)]_vars

\* C9 witness: a search displayed the earliest of two records with its roll
\* number, the later of which differs from it.
C9_Witness ==
    /\ last.op = "search"
    /\ last.found
    /\ CountRoll(students, last.roll) >= 2
    /\ LET i == FirstIndex(students, last.roll)
       IN  /\ last.shown = <<students[i]>>
           /\ \E j \in (i + 1)..Len(students) :
                 students[j].rollNo = last.roll /\ students[j] # students[i]

\* C10: the menu loop ends exactly when choice 6 is read, and that pass
\* performs no store operation; a choice other than 1 to 6 reports an
\* invalid choice, leaves the sequence and the file unchanged, and the loop
\* goes on.
C10_MenuLoop ==
    [][/\ (pc' = "exited") <=> (last'.choice = 6)
       /\ last'.choice = 6 =>
             /\ last'.trace = <<"Exiting">>
             /\ students' = students
             /\ file' = file
       /\ last'.choice \notin 1..6 =>
             /\ last'.trace = <<"Invalid">>
             /\ students' = students
             /\ file' = file
             /\ pc' = "menu"]_vars

\* C10 witness: an invalid choice was reported and the loop is still at the
\* menu with records in the sequence.
C10_Witness ==
    /\ last.op = "invalid"
    /\ last.choice \notin 1..6
    /\ pc = "menu"
    /\ students # <<>>

\* Record s is an outcome of parsing line.
ParsesTo(line, s) == \E o \in Student_fromString(line) : ~o.thrown /\ o.s = s

\* C11: loading any content of the backing file completes and leaves in the
\* sequence exactly one record per non-empty line, in file order, each the
\* result of parsing its line; empty lines contribute no record.
C11_LoadCompletes ==
    last.op = "load" =>
        LET lines == NonEmptyLines(file)
        IN  /\ pc = "menu"
            /\ Len(students) = Len(lines)
            /\ \A k \in 1..Len(lines) : ParsesTo(lines[k], students[k])

\* The buffer of standard input holds typed text that has not been read yet
\* (more than line breaks and blanks).
Unread(buf) == \E k \in 1..Len(buf) : buf[k] \notin {NL, " "}

\* The unread text of buf starts with a character no number starts with.
StartsWithoutNumber(buf) ==
    \E k \in 1..Len(buf) :
        /\ \A j \in 1..(k - 1) : buf[j] \in {NL, " "}
        /\ buf[k] \notin {NL, " ", "-", "+"}
        /\ \A d \in 1..10 : DigitChars[d] # buf[k]

Without(ss, i) ==
    [k \in 1..(Len(ss) - 1) |-> IF k < i THEN ss[k] ELSE ss[k + 1]]

\* C13: delete(id) with id present removes exactly one record, the earliest
\* with that roll number; the remaining records, later ones with the same
\* roll number included, keep their values and their relative order; and a
\* view lists exactly the records of the sequence, in order, so a view after
\* the delete lists exactly the remaining ones.
C13_DeleteRemovesEarliest ==
    [][/\ DeleteOfPresent =>
             /\ last'.found
             /\ students' = Without(students, FirstIndex(students, last'.roll))
       /\ last'.op = "view" =>
             /\ students' = students
             /\ last'.shown = students
       /\ (last.op = "delete" /\ last.found /\ last'.op = "view") =>
             last'.shown = students]_vars

\* C13 witness: a delete found its roll number and left two different
\* records, the first with another roll number and the second with the roll
\* number deleted.
C13_Witness ==
    /\ last.op = "delete"
    /\ last.found
    /\ Len(students) = 2
    /\ students[1].rollNo # last.roll
    /\ students[2].rollNo = last.roll

\* C14: after a mutating operation, every fresh load of the backing file
\* succeeds and yields a sequence as long as the in-memory one, also when a
\* text field holds a comma; it yields the in-memory sequence itself when no
\* text field of any record holds a comma.
C14_ReloadMatches ==
    ReportedSuccess =>
        \A o \in loadFromFile(file) :
            /\ ~o.thrown
            /\ Len(o.students) = Len(students)
            /\ (\A i \in 1..Len(students) : NoComma(students[i]))
                  => o.students = students

\* C14 witness: after a mutating operation the sequence holds a record with a
\* comma in its name and a different record without any comma.
C14_Witness ==
    /\ ReportedSuccess
    /\ \E i, j \in 1..Len(students) :
          /\ HasChar(students[i].name, COMMA)
          /\ NoComma(students[j])
          /\ students[j].rollNo < 0

====
